---- MODULE Spec2Model ----
(***************************************************************************)
(* Model of the "Why Was I Rejected?" Flask backend (src/app.py).          *)
(*                                                                         *)
(* Text is a sequence of character tokens ("a" stands for any visible      *)
(* character, " " and "\n" are whitespace).  A file name is a sequence of  *)
(* name parts: a stem ("cv") or a dot-suffix (".pdf").  A request carries  *)
(* a content type, the uploaded files, the form fields and the JSON body.  *)
(***************************************************************************)
EXTENDS Integers, Sequences, FiniteSets, TLC

VARIABLES
    pdfplumber,     \* TRUE iff `import pdfplumber` succeeded at start-up
    docx,           \* TRUE iff `import docx` succeeded at start-up
    strict_json,    \* TRUE iff the installed framework makes request.json
                    \* raise on a body whose content type is not JSON
    pending,        \* POST /analyze requests in flight towards the server
    pc,             \* per worker: position inside analyze()
    req,            \* per worker: the request being served
    resume_text,    \* per worker: local of analyze()
    job_desc_text,  \* per worker: local of analyze()
    resolved,       \* per worker: outcomes of the read_resume_or_desc calls
    sent,           \* per worker: payloads handed to the completion provider
    reply,          \* per worker: the provider's reply to the last payload
    responses,      \* per worker: HTTP responses written for the request
    health_resp,    \* last response written by GET /health
    index_resp      \* last response written by GET /

vars == <<pdfplumber, docx, strict_json, pending, pc, req, resume_text,
          job_desc_text, resolved, sent, reply, responses, health_resp,
          index_resp>>

\* ------------------------------------------------------------------ bounds

MaxLen == 2         \* longest inline text (characters)
MaxChunks == 2      \* most pages / paragraphs of an uploaded document
MaxPending == 2     \* requests in flight towards the two-worker server

\* -------------------------------------------------------------------- text

Chars == {"a", " "}
Whitespace == {" ", "\n"}

BSeq(S, n) == UNION {[1..k -> S] : k \in 0..n}

Texts == BSeq(Chars, MaxLen)

RECURSIVE lstrip(_)
lstrip(s) ==
    IF s = <<>> THEN <<>>
    ELSE IF Head(s) \in Whitespace THEN lstrip(Tail(s)) ELSE s

RECURSIVE rstrip(_)
rstrip(s) ==
    IF s = <<>> THEN <<>>
    ELSE IF s[Len(s)] \in Whitespace THEN rstrip(SubSeq(s, 1, Len(s) - 1))
    ELSE s

\* str.strip()
strip(s) == rstrip(lstrip(s))

\* "\n".join(chunks)
RECURSIVE join(_)
join(chunks) ==
    IF chunks = <<>> THEN <<>>
    ELSE IF Len(chunks) = 1 THEN chunks[1]
    ELSE chunks[1] \o <<"\n">> \o join(Tail(chunks))

\* -------------------------------------------------------------- file names

Suffixes == {".pdf", ".PDF", ".docx", ".DOCX", ".txt"}

\* str.lower(), part by part
LowerPart(p) ==
    CASE p = ".PDF" -> ".pdf"
      [] p = ".DOCX" -> ".docx"
      [] p = "CV" -> "cv"
      [] OTHER -> p

lower(name) == [i \in 1..Len(name) |-> LowerPart(name[i])]

\* str.endswith(suffix) for a dot-suffix: no stem and no other suffix ends
\* with it, so the name ends with it exactly when it is the last part.
endswith(name, suffix) == Len(name) > 0 /\ name[Len(name)] = suffix

\* os.path.splitext(name)[1]: from the last dot to the end, except that
\* the dots leading the name do not start an extension.
LastSuffix(name) ==
    LET S == {i \in 1..Len(name) : name[i] \in Suffixes}
    IN  IF S = {} THEN 0 ELSE CHOOSE i \in S : \A j \in S : j <= i

splitext_ext(name) ==
    LET i == LastSuffix(name)
    IN  IF i <= 1 THEN <<>> ELSE SubSeq(name, i, Len(name))

FileNames ==
    { <<>>, <<"cv", ".pdf">>, <<"CV", ".PDF">>, <<".pdf">>,
      <<"CV", ".DOCX">>, <<".docx">>, <<"cv", ".txt">> }

allowed_extension(filename) ==
    endswith(lower(filename), ".pdf") \/ endswith(lower(filename), ".docx")

\* ------------------------------------------------------- uploaded documents

\* A page whose extract_text() is None, and a page / paragraph with text.
NonePage == [none |-> TRUE, text |-> <<>>]
TextPage(t) == [none |-> FALSE, text |-> t]

PdfBodies ==
    {[fmt |-> "pdf", chunks |-> c] :
        c \in BSeq({NonePage, TextPage(<<"a">>)}, MaxChunks)}
DocxBodies ==
    {[fmt |-> "docx", chunks |-> c] :
        c \in BSeq({TextPage(<<>>), TextPage(<<"a">>)}, MaxChunks)}
GarbageBody == [fmt |-> "garbage", chunks |-> <<>>]
FileBodies == PdfBodies \cup DocxBodies \cup {GarbageBody}

NoFile == [attached |-> FALSE, filename |-> <<>>, body |-> GarbageBody]
Upload(n, b) == [attached |-> TRUE, filename |-> n, body |-> b]
Files == {NoFile} \cup {Upload(n, b) : n \in FileNames, b \in FileBodies}

\* ---------------------------------------------------------------- outcomes

Return(t, d) == [kind |-> "return", value |-> t, exc |-> "", decoder |-> d]
Raise(e, d) == [kind |-> "raise", value |-> <<>>, exc |-> e, decoder |-> d]

\* ---------------------------------------------------------------- decoders

\* `page.extract_text() or ""`
OrEmpty(page) == IF page.none \/ page.text = <<>> THEN <<>> ELSE page.text

extract_text_from_pdf(file) ==
    IF ~pdfplumber THEN Raise("RuntimeError", "pdf")
    ELSE IF file.body.fmt # "pdf" THEN Raise("PDFSyntaxError", "pdf")
    ELSE Return(join([i \in 1..Len(file.body.chunks) |->
                        OrEmpty(file.body.chunks[i])]), "pdf")

extract_text_from_docx(file) ==
    IF ~docx THEN Raise("RuntimeError", "docx")
    ELSE IF file.body.fmt # "docx" THEN Raise("BadZipFile", "docx")
    ELSE Return(join([i \in 1..Len(file.body.chunks) |->
                        file.body.chunks[i].text]), "docx")

\* ---------------------------------------------------------------- requests

\* The two names analyze() resolves, as their parts: "resume" + "_file".
resume_file == <<"resume", "_file">>
job_desc_file == <<"job_desc", "_file">>
FieldNames == {resume_file, job_desc_file}

\* field_name.replace("_file", "")
strip_file_suffix(field_name) == SelectSeq(field_name, LAMBDA p : p # "_file")

FormKeys == {<<"resume">>, <<"job_desc">>}
JsonKeys == {<<"resume">>, <<"job_desc">>, <<"job_description">>}

\* A form field or JSON member: absent, a string, or a JSON non-string.
Absent == [kind |-> "absent", text |-> <<>>]
Str(t) == [kind |-> "str", text |-> t]
Num == [kind |-> "num", text |-> <<>>]

NoForm == [k \in FormKeys |-> Absent]
NoMembers == [k \in JsonKeys |-> Absent]

\* A JSON body: malformed, or a value of one of the JSON types; `empty` is
\* Python's falsiness of the parsed value (None, 0, "", [], {}).
Body(k, e, m) == [kind |-> k, empty |-> e, members |-> m]
NoBody == Body("none", TRUE, NoMembers)
Object(m) == Body("obj", \A k \in JsonKeys : m[k] = Absent, m)

NoFiles == [f \in FieldNames |-> NoFile]

Request(c, fs, fm, js) == [ctype |-> c, files |-> fs, form |-> fm, json |-> js]

\* `request.form` is truthy
form_nonempty(request) == \E k \in FormKeys : request.form[k] # Absent

\* request.form.get(key, "")
form_get(request, key) ==
    IF key \in FormKeys /\ request.form[key].kind = "str"
    THEN request.form[key].text ELSE <<>>

\* request.json: the parsed body; a 400 on a malformed JSON body; on a body
\* that is not JSON, None (older frameworks) or a 415 (newer ones).
request_json(request) ==
    IF request.ctype = "json"
    THEN IF request.json.kind = "malformed"
         THEN [raised |-> TRUE, exc |-> "BadRequest", value |-> NoBody]
         ELSE [raised |-> FALSE, exc |-> "", value |-> request.json]
    ELSE IF strict_json
         THEN [raised |-> TRUE, exc |-> "UnsupportedMediaType", value |-> NoBody]
         ELSE [raised |-> FALSE, exc |-> "", value |-> NoBody]

\* ---------------------------------------------------------- input resolver

\* Lines 100-105: the textarea of a form, else the member of a JSON object.
inline_text(field_name, request) ==
    LET key == strip_file_suffix(field_name)
        js == request_json(request)
    IN  IF form_nonempty(request)
        THEN Return(strip(form_get(request, key)), "none")
        ELSE IF js.raised THEN Raise(js.exc, "none")
        ELSE IF js.value.empty THEN Return(<<>>, "none")          \* `or {}`
        ELSE IF js.value.kind # "obj" THEN Raise("AttributeError", "none")
        ELSE IF key \in JsonKeys /\ js.value.members[key].kind = "str"
             THEN Return(strip(js.value.members[key].text), "none")
             ELSE Return(<<>>, "none")

\* Lines 91-99: whatever the decoder raises becomes the empty string.
swallow(outcome) ==
    IF outcome.kind = "raise" THEN Return(<<>>, outcome.decoder) ELSE outcome

\* Lines 89-95: the decoder is chosen by os.path.splitext
dispatch(f, field_name, request) ==
    LET ext == lower(splitext_ext(f.filename))
    IN  IF ext = <<".pdf">> THEN swallow(extract_text_from_pdf(f))
        ELSE IF ext = <<".docx">> THEN swallow(extract_text_from_docx(f))
        ELSE inline_text(field_name, request)

read_resume_or_desc(field_name, request) ==
    LET f == request.files[field_name]
    IN  IF f.attached /\ f.filename # <<>> /\ allowed_extension(f.filename)
        THEN dispatch(f, field_name, request)
        ELSE inline_text(field_name, request)

\* ----------------------------------------------------------- prompt builder

SYSTEM_PROMPT == <<"You are an expert technical career coach. ...">>

\* build_prompt with both texts trimmed before they are inserted.
build_prompt_trimmed(resume, job_description) ==
    [system |-> SYSTEM_PROMPT,
     user |-> <<"[RESUME]", "\n">> \o strip(resume)
              \o <<"\n", "\n", "[JOB_DESCRIPTION]", "\n">>
              \o strip(job_description)]

\* Lines 110-128
build_prompt(resume, job_description) ==
    [system |-> SYSTEM_PROMPT,
     user |-> <<"[RESUME]", "\n">> \o resume
              \o <<"\n", "\n", "[JOB_DESCRIPTION]", "\n">> \o job_description]

\* The call of lines 188-196: two messages and the fixed parameters.
completion_request(prompt) ==
    [model |-> "gpt-4o-mini",
     messages |-> << [role |-> "system", content |-> prompt.system],
                     [role |-> "user", content |-> prompt.user] >>,
     temperature_x10 |-> 3,
     max_tokens |-> 800]

\* ------------------------------------------------------ provider and replies

Ok(content) == [ok |-> TRUE, content |-> content, error |-> ""]
Err(msg) == [ok |-> FALSE, content |-> <<>>, error |-> msg]
NoReply == [ok |-> FALSE, content |-> <<>>, error |-> "no reply"]
Replies == {Ok(<<"a">>), Ok(<<"a", "\n">>), Err("rate limit")}

\* -------------------------------------------------------------- responses

MISSING_INPUT ==
    "Both resume and job description are required - either upload a PDF/DOCX or paste the text."

\* keys: the members of a JSON body; text: the analysis (JSON) or the text
\* rendered into the page (HTML).
Response(status, mime, keys, error, text) ==
    [status |-> status, mime |-> mime, keys |-> keys, error |-> error,
     text |-> text]

\* What the framework answers when a view raises.
framework_error(exc) ==
    CASE exc = "BadRequest" -> Response(400, "html", {}, exc, <<>>)
      [] exc = "UnsupportedMediaType" -> Response(415, "html", {}, exc, <<>>)
      [] OTHER -> Response(500, "html", {}, exc, <<>>)

\* Line 175: `not resume_text or not job_desc_text`
missing_input(resume, job_desc) == resume = <<>> \/ job_desc = <<>>

\* Lines 176-183
bad_request == Response(400, "json", {"error"}, MISSING_INPUT, <<>>)

\* on_reply with the error rendered like the analysis: by content type.
on_reply_by_type(request, r) ==
    [pc |-> "done",
     response |->
        IF request.ctype = "json"
        THEN IF r.ok THEN Response(200, "json", {"analysis"}, "", strip(r.content))
             ELSE Response(500, "json", {"error"}, r.error, <<>>)
        ELSE IF r.ok THEN Response(200, "html", {}, "", strip(r.content))
             ELSE Response(500, "html", {}, r.error, <<>>)]

\* on_reply with the call tried again after a provider error.
on_reply_retry(request, r) ==
    IF r.ok
    THEN [pc |-> "done",
          response |->
             IF request.ctype = "json"
             THEN Response(200, "json", {"analysis"}, "", strip(r.content))
             ELSE Response(200, "html", {}, "", strip(r.content))]
    ELSE [pc |-> "validate",
          response |-> Response(500, "json", {"error"}, r.error, <<>>)]

\* Lines 197-205: the step after the provider's reply r to `request`.
on_reply(request, r) ==
    [pc |-> "done",
     response |->
        IF ~r.ok THEN Response(500, "json", {"error"}, r.error, <<>>)
        ELSE IF request.ctype = "json"
             THEN Response(200, "json", {"analysis"}, "", strip(r.content))
             ELSE Response(200, "html", {}, "", strip(r.content))]

\* health reporting the failures of the requests being served.
health_of_requests ==
    [code |-> 200,
     status |-> IF \E w \in DOMAIN responses :
                      \E i \in 1..Len(responses[w]) :
                          responses[w][i].status = 500
                THEN "degraded" ELSE "ok"]

\* Line 167
health == [code |-> 200, status |-> "ok"]

\* Line 162
index == [code |-> 200, result |-> "None"]

NoResponse == [code |-> 0, status |-> ""]
NoPage == [code |-> 0, result |-> ""]

\* ------------------------------------------------------------ the handlers

Workers == DOMAIN pc
NoRequest == Request("none", NoFiles, NoForm, NoBody)

Remove(q, i) == SubSeq(q, 1, i - 1) \o SubSeq(q, i + 1, Len(q))

\* The server hands a request in flight to an idle worker.
Receive(w) ==
    /\ pc[w] = "idle"
    /\ \E i \in 1..Len(pending) :
          /\ req' = [req EXCEPT ![w] = pending[i]]
          /\ pending' = Remove(pending, i)
    /\ pc' = [pc EXCEPT ![w] = "resume"]
    /\ UNCHANGED <<pdfplumber, docx, strict_json, resume_text, job_desc_text,
                   resolved, sent, reply, responses, health_resp, index_resp>>

\* Line 172
ResolveResume(w) ==
    /\ pc[w] = "resume"
    /\ LET o == read_resume_or_desc(resume_file, req[w])
       IN  /\ resolved' = [resolved EXCEPT ![w] = Append(@, o)]
           /\ IF o.kind = "raise"
              THEN /\ responses' = [responses EXCEPT
                                      ![w] = Append(@, framework_error(o.exc))]
                   /\ pc' = [pc EXCEPT ![w] = "done"]
                   /\ UNCHANGED resume_text
              ELSE /\ resume_text' = [resume_text EXCEPT ![w] = o.value]
                   /\ pc' = [pc EXCEPT ![w] = "job_desc"]
                   /\ UNCHANGED responses
    /\ UNCHANGED <<pdfplumber, docx, strict_json, pending, req, job_desc_text,
                   sent, reply, health_resp, index_resp>>

\* Line 173
ResolveJobDesc(w) ==
    /\ pc[w] = "job_desc"
    /\ LET o == read_resume_or_desc(job_desc_file, req[w])
       IN  /\ resolved' = [resolved EXCEPT ![w] = Append(@, o)]
           /\ IF o.kind = "raise"
              THEN /\ responses' = [responses EXCEPT
                                      ![w] = Append(@, framework_error(o.exc))]
                   /\ pc' = [pc EXCEPT ![w] = "done"]
                   /\ UNCHANGED job_desc_text
              ELSE /\ job_desc_text' = [job_desc_text EXCEPT ![w] = o.value]
                   /\ pc' = [pc EXCEPT ![w] = "validate"]
                   /\ UNCHANGED responses
    /\ UNCHANGED <<pdfplumber, docx, strict_json, pending, req, resume_text,
                   sent, reply, health_resp, index_resp>>

\* Lines 175-196: reject, or build the prompt and call the provider.
Validate(w) ==
    /\ pc[w] = "validate"
    /\ IF missing_input(resume_text[w], job_desc_text[w])
       THEN /\ responses' = [responses EXCEPT ![w] = Append(@, bad_request)]
            /\ pc' = [pc EXCEPT ![w] = "done"]
            /\ UNCHANGED sent
       ELSE /\ sent' = [sent EXCEPT ![w] = Append(@,
                  completion_request(
                      build_prompt(resume_text[w], job_desc_text[w])))]
            /\ pc' = [pc EXCEPT ![w] = "await"]
            /\ UNCHANGED responses
    /\ UNCHANGED <<pdfplumber, docx, strict_json, pending, req, resume_text,
                   job_desc_text, resolved, reply, health_resp, index_resp>>

\* Lines 197-205: the blocking call returns or raises a provider error.
Complete(w) ==
    /\ pc[w] = "await"
    /\ \E r \in Replies :
          LET n == on_reply(req[w], r)
          IN  /\ reply' = [reply EXCEPT ![w] = r]
              /\ pc' = [pc EXCEPT ![w] = n.pc]
              /\ responses' = [responses EXCEPT ![w] = Append(@, n.response)]
    /\ UNCHANGED <<pdfplumber, docx, strict_json, pending, req, resume_text,
                   job_desc_text, resolved, sent, health_resp, index_resp>>

\* The response is on the wire; the request's locals go away.
Close(w) ==
    /\ pc[w] = "done"
    /\ pc' = [pc EXCEPT ![w] = "idle"]
    /\ req' = [req EXCEPT ![w] = NoRequest]
    /\ resume_text' = [resume_text EXCEPT ![w] = <<>>]
    /\ job_desc_text' = [job_desc_text EXCEPT ![w] = <<>>]
    /\ resolved' = [resolved EXCEPT ![w] = <<>>]
    /\ sent' = [sent EXCEPT ![w] = <<>>]
    /\ reply' = [reply EXCEPT ![w] = NoReply]
    /\ responses' = [responses EXCEPT ![w] = <<>>]
    /\ UNCHANGED <<pdfplumber, docx, strict_json, pending, health_resp,
                   index_resp>>

\* GET /health
Health ==
    /\ health_resp' = health
    /\ UNCHANGED <<pdfplumber, docx, strict_json, pending, pc, req,
                   resume_text, job_desc_text, resolved, sent, reply,
                   responses, index_resp>>

\* GET /
Index ==
    /\ index_resp' = index
    /\ UNCHANGED <<pdfplumber, docx, strict_json, pending, pc, req,
                   resume_text, job_desc_text, resolved, sent, reply,
                   responses, health_resp>>

Next ==
    \/ \E w \in Workers : Receive(w)
    \/ \E w \in Workers : ResolveResume(w)
    \/ \E w \in Workers : ResolveJobDesc(w)
    \/ \E w \in Workers : Validate(w)
    \/ \E w \in Workers : Complete(w)
    \/ \E w \in Workers : Close(w)
    \/ Health
    \/ Index

\* ------------------------------------------------------- request populations

InlineValues == {Absent} \cup {Str(t) : t \in Texts}

\* A few uploads and a few inline texts.
SampleFiles ==
    { NoFile,
      Upload(<<"cv", ".pdf">>, [fmt |-> "pdf", chunks |-> <<TextPage(<<"a">>)>>]),
      Upload(<<"cv", ".pdf">>, [fmt |-> "pdf", chunks |-> <<NonePage, NonePage>>]),
      Upload(<<"cv", ".pdf">>, GarbageBody),
      Upload(<<"cv", ".docx">>, [fmt |-> "docx", chunks |-> <<TextPage(<<"a">>)>>]),
      Upload(<<".pdf">>, [fmt |-> "pdf", chunks |-> <<TextPage(<<"a">>)>>]) }

SampleInline == {Absent, Str(<<>>), Str(<<" ">>), Str(<<"a">>)}

\* Multipart requests that vary what read_resume_or_desc(f) reads: every
\* upload beside a few inline texts, and every inline text beside a few
\* uploads.
ProbeInputs ==
    (Files \X SampleInline) \cup (SampleFiles \X InlineValues)

ProbeRequests(f) ==
    {Request("form",
             [g \in FieldNames |-> IF g = f THEN x[1] ELSE NoFile],
             [k \in FormKeys |-> IF k = strip_file_suffix(f) THEN x[2] ELSE o],
             NoBody) :
        x \in ProbeInputs, o \in {Absent, Str(<<"a">>)}}

\* application/json requests: every JSON type, and objects over the keys.
JsonObjects ==
    {Object([k \in JsonKeys |->
                 IF k = <<"resume">> THEN a
                 ELSE IF k = <<"job_desc">> THEN b ELSE c]) :
        a \in InlineValues \cup {Num}, b \in InlineValues \cup {Num},
        c \in {Absent, Str(<<"a">>)}}

JsonBodies ==
    JsonObjects \cup
    { Body("malformed", TRUE, NoMembers), Body("null", TRUE, NoMembers),
      Body("list", TRUE, NoMembers), Body("list", FALSE, NoMembers),
      Body("num", FALSE, NoMembers), Body("str", FALSE, NoMembers) }

JsonRequests == {Request("json", NoFiles, NoForm, b) : b \in JsonBodies}

\* A request with no form, no file and no JSON (a bare POST).
BareRequests == {Request("other", NoFiles, NoForm, NoBody)}

\* Multipart requests with documents for both fields.
PairRequests ==
    {Request("form",
             [g \in FieldNames |-> IF g = resume_file THEN u1 ELSE u2],
             [k \in FormKeys |-> IF k = <<"resume">> THEN v1 ELSE v2],
             NoBody) :
        u1 \in SampleFiles, u2 \in SampleFiles,
        v1 \in SampleInline, v2 \in SampleInline}

AllRequests ==
    ProbeRequests(resume_file) \cup ProbeRequests(job_desc_file)
    \cup JsonRequests \cup BareRequests \cup PairRequests

\* The requests sent to the two-worker server.
ServerRequests ==
    { Request("json", NoFiles, NoForm,
              Object([k \in JsonKeys |->
                  IF k = <<"job_description">> THEN Absent ELSE Str(<<"a">>)])),
      Request("json", NoFiles, NoForm, Body("list", FALSE, NoMembers)),
      Request("form",
              [g \in FieldNames |-> IF g = resume_file
                  THEN Upload(<<"cv", ".pdf">>, GarbageBody) ELSE NoFile],
              [k \in FormKeys |-> Str(<<"a">>)], NoBody),
      Request("form", NoFiles,
              [k \in FormKeys |-> IF k = <<"resume">> THEN Str(<<" ">>)
                                  ELSE Str(<<"a", " ">>)], NoBody) }

\* ------------------------------------------------------------ specifications

InitWith(W, batches) ==
    /\ pdfplumber \in BOOLEAN
    /\ docx \in BOOLEAN
    /\ strict_json \in BOOLEAN
    /\ pending \in batches
    /\ pc = [w \in W |-> "idle"]
    /\ req = [w \in W |-> NoRequest]
    /\ resume_text = [w \in W |-> <<>>]
    /\ job_desc_text = [w \in W |-> <<>>]
    /\ resolved = [w \in W |-> <<>>]
    /\ sent = [w \in W |-> <<>>]
    /\ reply = [w \in W |-> NoReply]
    /\ responses = [w \in W |-> <<>>]
    /\ health_resp = NoResponse
    /\ index_resp = NoPage

\* One worker, one request at a time, every kind of request.
Init == InitWith({"w1"}, {<<m>> : m \in AllRequests})

Spec == Init /\ [][Next]_vars

\* Two workers serving a batch of requests in any interleaving.
InitServer == InitWith({"w1", "w2"}, [1..MaxPending -> ServerRequests])

SpecServer == InitServer /\ [][Next]_vars

\* ------------------------------------------------------------------ claims

\* The i-th read_resume_or_desc call of a request resolves this field.
FieldOf(i) == IF i = 1 THEN resume_file ELSE job_desc_file

\* Both fields of worker w's request have been resolved to strings.
BothResolved(w) ==
    /\ Len(resolved[w]) = 2
    /\ \A i \in 1..2 : resolved[w][i].kind = "return"

\* The upload for a field is one allowed_extension accepts.
Accepted(f) == f.attached /\ f.filename # <<>> /\ allowed_extension(f.filename)

\* The decoder the upload's name asks for, and what it makes of the upload.
DecoderFor(f) == IF endswith(lower(f.filename), ".pdf") THEN "pdf" ELSE "docx"
Extraction(f) ==
    IF DecoderFor(f) = "pdf" THEN extract_text_from_pdf(f)
    ELSE extract_text_from_docx(f)

\* C1: a request one of whose resolved texts is empty after trimming is
\* answered 400 with the fixed message, and no completion call is made.
C1_EmptyAfterTrimRejected ==
    \A w \in Workers :
        (BothResolved(w)
         /\ (strip(resolved[w][1].value) = <<>>
             \/ strip(resolved[w][2].value) = <<>>))
        => /\ sent[w] = <<>>
           /\ pc[w] # "await"
           /\ pc[w] = "done" =>
                 responses[w] =
                    <<Response(400, "json", {"error"}, MISSING_INPUT, <<>>)>>

\* The documented JSON request: {"resume": str, "job_description": str},
\* both values non-empty.
JsonWithBoth(r) ==
    /\ r.ctype = "json"
    /\ r.json.kind = "obj"
    /\ r.json.members[<<"resume">>].kind = "str"
    /\ strip(r.json.members[<<"resume">>].text) # <<>>
    /\ r.json.members[<<"job_description">>].kind = "str"
    /\ strip(r.json.members[<<"job_description">>].text) # <<>>

\* C2: an application/json request {"resume": str, "job_description": str}
\* with both values non-empty is answered 200 with an `analysis` string
\* unless the completion call fails.
C2_JsonRequestAnalysed ==
    \A w \in Workers :
        (pc[w] = "done" /\ JsonWithBoth(req[w])
         /\ (sent[w] = <<>> \/ reply[w].ok))
        => /\ Len(responses[w]) = 1
           /\ responses[w][1].status = 200
           /\ responses[w][1].mime = "json"
           /\ "analysis" \in responses[w][1].keys

\* C3: read_resume_or_desc never raises: every call returns a string.
C3_ResolverNeverRaises ==
    \A w \in Workers : \A i \in 1..Len(resolved[w]) :
        resolved[w][i].kind = "return"

\* C4: when the completion call of a validated request raises a provider
\* error, the response is 500 with a JSON body holding only `error`, the
\* provider's message, whatever the request's content type.
C4_ProviderErrorIs500 ==
    \A w \in Workers :
        (pc[w] = "done" /\ sent[w] # <<>> /\ ~reply[w].ok)
        => /\ Len(responses[w]) = 1
           /\ responses[w][1].status = 500
           /\ responses[w][1].mime = "json"
           /\ responses[w][1].keys = {"error"}
           /\ responses[w][1].error = reply[w].error

\* C4's case: a multipart request whose completion call failed.
C4_Witness ==
    \E w \in Workers :
        /\ pc[w] = "done" /\ sent[w] # <<>> /\ ~reply[w].ok
        /\ req[w].ctype = "form"

\* C5: an upload with an allow-listed extension whose extraction succeeds
\* resolves to the extracted text, whatever the inline text is.
C5_ExtractedTextWins ==
    \A w \in Workers : \A i \in 1..Len(resolved[w]) :
        LET f == req[w].files[FieldOf(i)]
        IN  (Accepted(f) /\ Extraction(f).kind = "return")
            => /\ resolved[w][i].kind = "return"
               /\ resolved[w][i].value = Extraction(f).value

\* C6: an upload with an allow-listed extension whose extraction fails
\* resolves to the empty string, whatever the inline text is, and the
\* request ends with a 400 and no completion call.
C6_FailedExtractionRejected ==
    \A w \in Workers : \A i \in 1..Len(resolved[w]) :
        LET f == req[w].files[FieldOf(i)]
        IN  (Accepted(f) /\ Extraction(f).kind = "raise")
            => /\ resolved[w][i].kind = "return"
               /\ resolved[w][i].value = <<>>
               /\ sent[w] = <<>>
               /\ pc[w] = "done" =>
                     responses[w] =
                        <<Response(400, "json", {"error"}, MISSING_INPUT, <<>>)>>

\* C7: a request makes at most one completion call, exactly one once both
\* resolved texts passed validation, none after a failed call, and ends with
\* exactly one response; a request that has not ended can take a step.
C7_OneCallOneResponse ==
    \A w \in Workers :
        /\ Len(sent[w]) <= 1
        /\ (pc[w] \in {"await", "done"} /\ BothResolved(w)
            /\ resume_text[w] # <<>> /\ job_desc_text[w] # <<>>)
           => Len(sent[w]) = 1
        /\ pc[w] = "done" => Len(responses[w]) = 1
        /\ pc[w] # "done" => responses[w] = <<>>
        /\ pc[w] \in {"resume", "job_desc", "validate", "await"} =>
              ENABLED (ResolveResume(w) \/ ResolveJobDesc(w) \/ Validate(w)
                       \/ Complete(w))

\* C7's case: a request that ended after its one call failed.
C7_Witness ==
    \E w \in Workers :
        /\ pc[w] = "done" /\ Len(sent[w]) = 1 /\ ~reply[w].ok
        /\ Len(responses[w]) = 1

\* C8: the user message sent to the provider is the literal concatenation
\* of the markers and the two resolved texts, unaltered, and the system
\* message is the fixed system prompt.
C8_PromptIsConcatenation ==
    \A w \in Workers : \A i \in 1..Len(sent[w]) :
        /\ BothResolved(w)
        /\ Len(sent[w][i].messages) = 2
        /\ sent[w][i].messages[1] =
              [role |-> "system", content |-> SYSTEM_PROMPT]
        /\ sent[w][i].messages[2] =
              [role |-> "user",
               content |-> <<"[RESUME]", "\n">> \o resolved[w][1].value
                           \o <<"\n", "\n", "[JOB_DESCRIPTION]", "\n">>
                           \o resolved[w][2].value]

\* C8's case: a payload whose resume text has inner and outer whitespace.
C8_Witness ==
    \E w \in Workers :
        /\ Len(sent[w]) = 1
        /\ resolved[w][1].value = <<"a", "\n", "a">>
        /\ resolved[w][2].value # <<>>

\* C9: GET /health answers {"status": "ok"} after any history, and two
\* requests with the same inputs and the same provider reply get the same
\* response, however the two are interleaved.
C9_RequestsIndependent ==
    /\ health_resp \in {NoResponse, [code |-> 200, status |-> "ok"]}
    /\ \A w1, w2 \in Workers :
          (pc[w1] = "done" /\ pc[w2] = "done" /\ req[w1] = req[w2]
           /\ reply[w1] = reply[w2])
          => responses[w1] = responses[w2]

\* C9's case: /health answered while one request has failed at the
\* provider and the same request is served again by the other worker.
C9_Witness ==
    /\ health_resp = [code |-> 200, status |-> "ok"]
    /\ \E w1, w2 \in Workers :
          /\ w1 # w2
          /\ pc[w1] = "done" /\ pc[w2] = "done" /\ req[w1] = req[w2]
          /\ reply[w1] = reply[w2]
          /\ responses[w1][1].status = 500

\* C10: inline text is used exactly when no file is attached or its name is
\* not accepted by allowed_extension; an accepted file goes to the decoder
\* matching its extension and the result is the decoder's output or the
\* empty string.
C10_AcceptedFileDispatched ==
    \A w \in Workers : \A i \in 1..Len(resolved[w]) :
        LET f == req[w].files[FieldOf(i)]
        IN  IF Accepted(f)
            THEN /\ resolved[w][i].decoder = DecoderFor(f)
                 /\ resolved[w][i].kind = "return"
                 /\ resolved[w][i].value \in
                       {<<>>} \cup
                       (IF Extraction(f).kind = "return"
                        THEN {Extraction(f).value} ELSE {})
            ELSE resolved[w][i] = inline_text(FieldOf(i), req[w])

====
